---- MODULE Spec2Model ----
(***************************************************************************)
(* A model of the awesomation hub (src/src/appengine): the Z-Wave device   *)
(* and its protocol-event normalizer (devices/zwave.py), the base device   *)
(* with its command dispatch and set_room (model.py), the push fanout      *)
(* (user.py, main.py) and the OAuth account link (account.py).             *)
(*                                                                         *)
(* A Python value that may be None is modelled as a sequence of length at  *)
(* most one: None is << >>, a value x is << x >>.  A dict key that may be  *)
(* missing is modelled the same way (missing is << >>).                    *)
(***************************************************************************)
EXTENDS Integers, Sequences, FiniteSets, TLC

None == << >>
Some(x) == << x >>

(***************************************************************************)
(* Bounds of the model.                                                    *)
(***************************************************************************)
\* The longest zwave_command_class_values list the model lets grow.
MaxValues == 2

(***************************************************************************)
(* devices/zwave.py: the Z-Wave device.                                    *)
(***************************************************************************)
SENSOR_BINARY == "COMMAND_CLASS_SENSOR_BINARY"
BASIC == "COMMAND_CLASS_BASIC"
\* The (command class, index) pairs the notifications of the model carry.
Pairs == {<<SENSOR_BINARY, 0>>, <<SENSOR_BINARY, 1>>, <<BASIC, 0>>}
ValueTypes == {"ValueAdded", "ValueChanged"}

\* The rooms of the datastore the Z-Wave device may reference: "r1" exists,
\* "r9" is the id of no stored Room.
ZRooms == {"r1"}
ZRoomIds == {"r1", "r9"}

\* ZWAVE_DRIVERS: the registry the register decorator fills at import time,
\* keyed by '<manufacturer_id>-<product_type>-<product_id>'.
ZWAVE_DRIVERS == {<<"m1", "t1", "p1">>}

\* CommandClassValue(command_class=..., index=...): every other property unset.
CommandClassValue(command_class, index) ==
  [command_class |-> command_class, index |-> index, value |-> None,
   read_only |-> None, value_id |-> None]

\* ZWaveDevice(...): a device as it is before any notification reached it.
ZWaveDevice(room) ==
  [zwave_node_id |-> None, zwave_home_id |-> None,
   zwave_command_class_values |-> << >>,
   zwave_node_type |-> None, zwave_node_name |-> None,
   zwave_manufacturer_name |-> None, zwave_manufacturer_id |-> None,
   zwave_product_name |-> None, zwave_product_type |-> None,
   zwave_product_id |-> None,
   room |-> room, _driver |-> None]

VARIABLES
  zdev,      \* the ZWaveDevice object of the unit of work
  lights,    \* room id -> the state the room's set_lights was last called with
  zlast      \* what the last operation on zdev was and how it ended

zvars == <<zdev, lights, zlast>>

VARIABLES
  rooms,     \* the stored Room entities, by id
  devs,      \* the stored Device entities, by id
  uow        \* per unit of work: the command it runs and where it stands

dvars == <<rooms, devs, uow>>

VARIABLES
  namespace,    \* the datastore namespace of the request: the building id
  user_events,  \* flask.g.user_events: None, or the batch of the request
  pushed,       \* the deliveries of the last flush, in order
  plast,        \* what the last flush read and how it ended
  unit          \* the number of the unit of work that is running

pvars == <<namespace, user_events, pushed, plast, unit>>

VARIABLES
  accounts,  \* the stored Account entities, by id (the OAuth state token)
  alast      \* what the last OAuth step was given and how it ended

avars == <<accounts, alast>>

VARIABLES
  persons,   \* the stored Person entities, by user id
  clast      \* what the last channel_auth request was and how it ended

cvars == <<persons, clast>>

vars == <<zvars, dvars, pvars, avars, cvars>>

(***************************************************************************)
(* Notifications.  valueId and the NodeInfoUpdate keys may each be missing.*)
(***************************************************************************)
NoInfo ==
  [node_type |-> None, node_name |-> None, manufacturer_name |-> None,
   manufacturer_id |-> None, product_name |-> None, product_type |-> None,
   product_id |-> None]

\* A NodeInfoUpdate payload whose keys from position n+1 on (in the order
\* handle_event reads them) are missing; n = 7 is a complete payload.
Info(n, product_id) ==
  [node_type         |-> IF n >= 1 THEN Some("switch") ELSE None,
   node_name         |-> IF n >= 2 THEN Some("hall") ELSE None,
   manufacturer_name |-> IF n >= 3 THEN Some("Acme") ELSE None,
   manufacturer_id   |-> IF n >= 4 THEN Some("m1") ELSE None,
   product_name      |-> IF n >= 5 THEN Some("Plug") ELSE None,
   product_type      |-> IF n >= 6 THEN Some("t1") ELSE None,
   product_id        |-> IF n >= 7 THEN Some(product_id) ELSE None]

ValueId(cc, idx, ro, id, value, home, node, inst) ==
  [commandClass |-> cc, index |-> idx, readOnly |-> ro, id |-> id,
   value |-> value, homeId |-> home, nodeId |-> node, instance |-> inst]

\* A valueId as the mesh sends it, with every protocol key present.
FullValueId(cc, idx, value) ==
  ValueId(Some(cc), Some(idx), Some(TRUE), Some(1), value, Some(1), Some(1), Some(1))

\* Valueids with keys missing.
MalformedValueIds ==
  { ValueId(None, Some(0), Some(TRUE), Some(1), Some(TRUE), Some(1), Some(1), Some(1)),
    ValueId(Some(SENSOR_BINARY), None, Some(TRUE), Some(1), Some(TRUE), Some(1), Some(1), Some(1)),
    ValueId(Some(SENSOR_BINARY), Some(0), None, Some(1), Some(TRUE), Some(1), Some(1), Some(1)),
    ValueId(Some(SENSOR_BINARY), Some(0), Some(TRUE), None, Some(TRUE), Some(1), Some(1), Some(1)),
    ValueId(Some(SENSOR_BINARY), Some(0), Some(TRUE), Some(1), Some(TRUE), None, None, None),
    ValueId(Some(SENSOR_BINARY), Some(0), Some(TRUE), Some(1), Some(TRUE), Some(1), None, Some(1)),
    ValueId(Some(SENSOR_BINARY), Some(0), Some(TRUE), Some(1), Some(TRUE), Some(1), Some(1), None),
    ValueId(Some(SENSOR_BINARY), Some(1), Some(TRUE), Some(1), None, Some(1), Some(1), Some(1)) }

Event(type, home, node, valueId, info) ==
  [notificationType |-> type, homeId |-> home, nodeId |-> node,
   valueId |-> valueId, info |-> info]

\* The top-level homeId and nodeId of a notification: neither, both, or the
\* homeId alone.
MeshIds == { <<None, None>>, <<Some(7), Some(3)>>, <<Some(7), None>> }

WellFormedValueEvents ==
  { Event(Some("ValueChanged"), ids[1], ids[2],
          Some(FullValueId(p[1], p[2], Some(v))), NoInfo) :
      ids \in MeshIds, p \in Pairs, v \in BOOLEAN }
  \cup { Event(Some("ValueAdded"), None, None,
               Some(FullValueId(p[1], p[2], Some(v))), NoInfo) :
           p \in Pairs, v \in BOOLEAN }

MalformedValueEvents ==
  { Event(Some("ValueChanged"), h, h, Some(vid), NoInfo) :
      h \in {None, Some(7)}, vid \in MalformedValueIds }
  \cup { Event(Some("ValueAdded"), None, None, None, NoInfo) }

NodeInfoEvents ==
  { Event(Some("NodeInfoUpdate"), None, None, None, Info(n, p)) :
      n \in {3, 7}, p \in {"p1", "p2"} }

OtherEvents ==
  { Event(t, ids[1], ids[2], None, NoInfo) :
      t \in {Some("NodeRemoved"), None}, ids \in MeshIds }

Events ==
  WellFormedValueEvents \cup MalformedValueEvents \cup NodeInfoEvents \cup OtherEvents

(***************************************************************************)
(* ZWaveDevice._command_class_value (zwave.py 113-120).                    *)
(***************************************************************************)
\* The positions of the entries for (command_class, index).
Positions(values, command_class, index) ==
  { i \in 1..Len(values) :
      values[i].command_class = command_class /\ values[i].index = index }

Min(S) == CHOOSE x \in S : \A y \in S : x <= y

\* Mutant of FindOrCreate: the scan is skipped, every call appends.
FindOrCreate_AlwaysAppends(values, command_class, index) ==
  [values |-> Append(values, CommandClassValue(command_class, index)),
   at |-> Len(values) + 1]

\* Find the given (command_class, index) or create a new one: the list after
\* the call and the position of the entry the call returns.
FindOrCreate(values, command_class, index) ==
  LET found == Positions(values, command_class, index)
  IN  IF found # {}
      THEN [values |-> values, at |-> Min(found)]
      ELSE [values |-> Append(values, CommandClassValue(command_class, index)),
            at |-> Len(values) + 1]

\* Mutant of Populate: a value already stored is kept (first write wins).
Populate_KeepsStoredValue(ccv, valueId) ==
  [ccv EXCEPT !.read_only = valueId.readOnly,
              !.value_id = valueId.id,
              !.value = IF @ = None /\ valueId.value # None THEN valueId.value ELSE @]

\* ccv.populate(**value): sets the properties the valueId carries.  The keys
\* left in the dict are read_only and value_id (always, they were renamed
\* from readOnly and id) and value (when the valueId carries it).
Populate(ccv, valueId) ==
  [ccv EXCEPT !.read_only = valueId.readOnly,
              !.value_id = valueId.id,
              !.value = IF valueId.value # None THEN valueId.value ELSE @]

(***************************************************************************)
(* ZWaveDevice.lights (zwave.py 166-176).  Room.set_lights is code of      *)
(* appengine/room.py; it is modelled as recording the state it is given.   *)
(***************************************************************************)
SetLights(lts, room, state) == [lts EXCEPT ![room] = Some(state)]

\* Mutant of Lights: the test of the looked-up room is inverted.
Lights_SkipsFoundRoom(dev, lts, state) ==
  IF dev.room = None THEN lts
  ELSE IF dev.room[1] \in ZRooms THEN lts
  ELSE lts

Lights(dev, lts, state) ==
  IF dev.room = None THEN lts
  ELSE IF dev.room[1] \notin ZRooms THEN lts
  ELSE SetLights(lts, dev.room[1], state)

(***************************************************************************)
(* ZWaveDevice.driver (zwave.py 86-103): the driver of the device.         *)
(***************************************************************************)
\* '%s-%s-%s' % (manufacturer id, product type, product id); an unset
\* property formats as 'None', which is part of no registered key.
DriverKey(dev) ==
  <<dev.zwave_manufacturer_id, dev.zwave_product_type, dev.zwave_product_id>>

\* ZWAVE_DRIVERS.get(key, None): the registered class, or None.
LookupDriver(key) ==
  IF \E k \in ZWAVE_DRIVERS : key = <<Some(k[1]), Some(k[2]), Some(k[3])>>
  THEN Some("RegisteredDriver")
  ELSE None

\* Driver.get_capabilities (zwave.py 22-23) of the fallback Driver; the
\* registered driver classes are in other files, their capabilities are
\* whatever they declare.
get_capabilities(class) == IF class = "Driver" THEN {} ELSE {"registered"}

\* Reading dev.driver: how the read ends, the driver it returns and the
\* device after it (the driver found is cached in _driver).  Line 96 reads
\* _driver.__name__ before line 99 tests _driver for None: with no
\* registered class the read raises (the AttributeError re-enters
\* __getattr__, line 107, which reads self.driver again, until the
\* interpreter's recursion limit ends it).
driver(dev) ==
  IF dev._driver # None
  THEN [outcome |-> "ok", driver |-> dev._driver, dev |-> dev]
  ELSE LET _driver == LookupDriver(DriverKey(dev))
           logged == IF _driver = None THEN "raises" ELSE "ok"
       IN  IF logged = "raises"
           THEN [outcome |-> "raises", driver |-> None, dev |-> dev]
           ELSE IF _driver = None
           THEN [outcome |-> "ok", driver |-> Some("Driver"), dev |-> dev]
           ELSE [outcome |-> "ok", driver |-> _driver,
                 dev |-> [dev EXCEPT !._driver = _driver]]

(***************************************************************************)
(* ZWaveDevice.handle_event (zwave.py 122-164), as a function of the       *)
(* device, the rooms' lights and the notification: the device and lights   *)
(* after the call and how the call ended.                                  *)
(***************************************************************************)
Outcome(dev, lts, outcome, upsert) ==
  [dev |-> dev, lights |-> lts, outcome |-> outcome, upsert |-> upsert]

\* What an upsert did to the list: "appended" a new entry, left the entry the
\* "same", "overwrote" a stored value with another, or "changed" the entry
\* otherwise; at is the position of the entry, 0 when there was no upsert.
Upsert(kind, at) == [kind |-> kind, at |-> at]
NoUpsert == Upsert("none", 0)

\* Mutant of SetMeshIds: event.get('homeId') in place of the "in" tests.
SetMeshIds_AssignsMissing(dev, event) ==
  [dev EXCEPT !.zwave_home_id = event.homeId, !.zwave_node_id = event.nodeId]

\* Lines 127-130: the mesh identifiers, whatever the notification type.
SetMeshIds(dev, event) ==
  [dev EXCEPT !.zwave_home_id = IF event.homeId # None THEN event.homeId ELSE @,
              !.zwave_node_id = IF event.nodeId # None THEN event.nodeId ELSE @]

\* Lines 132-149: ValueAdded / ValueChanged.
HandleValue(dev, lts, event) ==
  IF event.valueId = None THEN Outcome(dev, lts, "KeyError", NoUpsert)
  ELSE
    LET value == event.valueId[1]
    IN  IF \/ value.commandClass = None \/ value.index = None
           \/ value.readOnly = None \/ value.id = None
           \/ value.homeId = None \/ value.nodeId = None
           \/ value.instance = None
        THEN Outcome(dev, lts, "KeyError", NoUpsert)
        ELSE
          LET command_class == value.commandClass[1]
              index == value.index[1]
              old == dev.zwave_command_class_values
              got == FindOrCreate(old, command_class, index)
              values == [got.values EXCEPT ![got.at] = Populate(@, value)]
              dev2 == [dev EXCEPT !.zwave_command_class_values = values]
              upsert == Upsert(
                          IF Positions(old, command_class, index) = {}
                          THEN "appended"
                          ELSE IF values = old THEN "same"
                          ELSE IF /\ got.at \in DOMAIN old
                                  /\ old[got.at].value # None
                                  /\ values[got.at].value # old[got.at].value
                               THEN "overwrote"
                               ELSE "changed",
                          got.at)
          IN  IF command_class = SENSOR_BINARY
              THEN IF value.value = None
                   THEN Outcome(dev2, lts, "KeyError", upsert)
                   ELSE Outcome(dev2, Lights(dev2, lts, value.value[1]), "ok", upsert)
              ELSE Outcome(dev2, lts, "ok", upsert)

\* Lines 151-161: NodeInfoUpdate assigns the seven fields in order and stops
\* with a KeyError at the first key the notification lacks.
HandleNodeInfo(dev, lts, event) ==
  LET i == event.info
      n == IF i.node_type = None THEN 0
           ELSE IF i.node_name = None THEN 1
           ELSE IF i.manufacturer_name = None THEN 2
           ELSE IF i.manufacturer_id = None THEN 3
           ELSE IF i.product_name = None THEN 4
           ELSE IF i.product_type = None THEN 5
           ELSE IF i.product_id = None THEN 6
           ELSE 7
      dev2 == [dev EXCEPT
                 !.zwave_node_type = IF n >= 1 THEN i.node_type ELSE @,
                 !.zwave_node_name = IF n >= 2 THEN i.node_name ELSE @,
                 !.zwave_manufacturer_name = IF n >= 3 THEN i.manufacturer_name ELSE @,
                 !.zwave_manufacturer_id = IF n >= 4 THEN i.manufacturer_id ELSE @,
                 !.zwave_product_name = IF n >= 5 THEN i.product_name ELSE @,
                 !.zwave_product_type = IF n >= 6 THEN i.product_type ELSE @,
                 !.zwave_product_id = IF n >= 7 THEN i.product_id ELSE @]
  IN  Outcome(dev2, lts, IF n = 7 THEN "ok" ELSE "KeyError", NoUpsert)

handle_event(dev, lts, event) ==
  IF event.notificationType = None
  THEN Outcome(dev, lts, "KeyError", NoUpsert)
  ELSE
    LET dev1 == SetMeshIds(dev, event)
        notification_type == event.notificationType[1]
    IN  IF notification_type \in ValueTypes THEN HandleValue(dev1, lts, event)
        ELSE IF notification_type = "NodeInfoUpdate"
             THEN HandleNodeInfo(dev1, lts, event)
        ELSE Outcome(dev1, lts, "ok", NoUpsert)

TypeOf(event) ==
  IF event.notificationType = None THEN "missing" ELSE event.notificationType[1]

\* One notification normalized against the device.
HandleEvent(event) ==
  \E r \in {handle_event(zdev, lights, event)} :
      /\ Len(r.dev.zwave_command_class_values) <= MaxValues
      /\ zdev' = r.dev
      /\ lights' = r.lights
      /\ zlast' = [op |-> "handle_event", type |-> TypeOf(event),
                   outcome |-> r.outcome, upsert |-> r.upsert, driver |-> None]
      /\ UNCHANGED <<dvars, pvars, avars, cvars>>

\* One read of the device's driver property.
ReadDriver ==
  \E r \in {driver(zdev)} :
      /\ zdev' = r.dev
      /\ zlast' = [op |-> "driver", type |-> "none", outcome |-> r.outcome,
                   upsert |-> NoUpsert, driver |-> r.driver]
      /\ UNCHANGED <<lights, dvars, pvars, avars, cvars>>

\* A device that was placed in no room, in a stored room, or in a room that
\* is not stored.
ZInit ==
  /\ zdev \in { ZWaveDevice(room) : room \in {None} \cup { Some(r) : r \in ZRoomIds } }
  /\ lights = [r \in ZRooms |-> None]
  /\ zlast = [op |-> "init", type |-> "none", outcome |-> "ok", upsert |-> NoUpsert,
              driver |-> None]

\* The Z-Wave device of the specifications that send it no notification.
ZIdle == ZInit /\ zdev = ZWaveDevice(None)

ZNext == \E event \in Events : HandleEvent(event)

\* The driver of a device whose descriptive fields NodeInfoUpdate sets.
DriverNext ==
  \/ \E event \in NodeInfoEvents \cup OtherEvents : HandleEvent(event)
  \/ ReadDriver

(***************************************************************************)
(* model.py: Room, Device, Switch, command dispatch and set_room.          *)
(***************************************************************************)
\* The longest Room.devices list the model lets grow.
MaxRoomDevices == 2

\* The ids of the stored Rooms of the namespace the commands run in; "r9"
\* is the id of no Room, and "r3" is that of a Room stored in the namespace
\* of another user.
Rooms == {"r1", "r2"}
OtherRooms == {"r3"}
RoomIds == Rooms \cup OtherRooms \cup {"r9"}
Devices == {"d1", "d2"}
Units == {"u1", "u2"}

\* Room(owner, name, devices) and Device(owner, name, room); class is the
\* PolyModel class of the entity.
Room(owner, name) == [owner |-> owner, name |-> name, devices |-> << >>]
Device(class, owner, name) ==
  [class |-> class, owner |-> owner, name |-> name, room |-> None]

\* The methods the Command decorator marks (is_command = True).
Commands(class) ==
  {"set_room"} \cup (IF class = "Switch" THEN {"turn_on", "turn_off"} ELSE {})

\* The other methods of a device: no is_command attribute.
Methods == {"handle_event", "handle_command", "to_dict"}

\* getattr(self, func_name, None): a command, a method that is no command,
\* the value of a property, or None (no such attribute, or a property that
\* holds None).
GetAttr(self, func_name) ==
  IF func_name \in Commands(self.class) THEN [kind |-> "command"]
  ELSE IF func_name \in Methods THEN [kind |-> "method"]
  ELSE IF func_name = "owner" THEN [kind |-> "value"]
  ELSE IF func_name = "name"
       THEN [kind |-> IF self.name = None THEN "None" ELSE "value"]
  ELSE IF func_name = "room"
       THEN [kind |-> IF self.room = None THEN "None" ELSE "value"]
  ELSE [kind |-> "None"]

\* A command envelope: the 'command' key and the remaining keys, here
\* room_id; either may be missing.
Command(func_name, room_id) == [command |-> func_name, room_id |-> room_id]

CommandEnvelopes ==
  { Command(Some("set_room"), r) : r \in {None} \cup { Some(x) : x \in RoomIds } }
  \cup { Command(Some(n), None) :
           n \in {"turn_on", "handle_event", "name", "room", "nope"} }
  \cup { Command(None, None), Command(Some("turn_on"), Some("r1")) }

\* The datastore namespace an entity is stored in.  before_request
\* (main.py 73) sets the namespace of a request to the id of its user.
KeyNamespace(id) == IF id \in OtherRooms THEN "bob" ELSE "alice"

\* Mutant of InNamespace: get_by_id sees the entities of every namespace.
InNamespace_AllNamespaces(rms, ns) == rms

\* The stored Rooms that get_by_id can see in namespace ns.
InNamespace(rms, ns) ==
  [r \in { x \in DOMAIN rms : KeyNamespace(x) = ns } |-> rms[r]]

\* Mutant of RoomGetById: an unknown id falls back to a stored Room.
RoomGetById_FallsBack(rms, room_id) ==
  IF room_id \in DOMAIN rms
  THEN Some([id |-> room_id, entity |-> rms[room_id]])
  ELSE Some([id |-> "r1", entity |-> rms["r1"]])

\* Room.get_by_id(room_id): the stored Room, or None.
RoomGetById(rms, room_id) ==
  IF room_id \in DOMAIN rms
  THEN Some([id |-> room_id, entity |-> rms[room_id]])
  ELSE None

\* Where a command stands after the synchronous part of its handler: its
\* result so far, the handler invoked, and for set_room the Room object
\* (devices appended, not yet put) that the two puts will write.
Step(pc, result, invoked, room) ==
  [pc |-> pc, result |-> result, invoked |-> invoked, room |-> room]

\* Device.set_room (model.py 68-74), up to the first put.
set_room(key, rms, command) ==
  IF command.room_id = None THEN Step("idle", "TypeError", None, None)
  ELSE
    LET room == RoomGetById(rms, command.room_id[1])
    IN  IF room = None THEN Step("idle", "abort404", Some("set_room"), None)
        ELSE Step("room.put", "running", Some("set_room"),
                  Some([room[1] EXCEPT !.entity.devices = Append(@, key)]))

\* Switch.turn_on / turn_off (model.py 85-91): no parameters, no effect.
turn_on(command) ==
  IF command.room_id # None THEN Step("idle", "TypeError", None, None)
  ELSE Step("idle", "ok", Some("turn_on"), None)

\* Device.handle_command (model.py 57-66).  getattr with a name of None
\* raises TypeError; func.is_command raises AttributeError for a method the
\* decorator did not mark and for a property value.
handle_command(self, key, rms, command) ==
  IF command.command = None THEN Step("idle", "TypeError", None, None)
  ELSE
    LET func_name == command.command[1]
        func == GetAttr(self, func_name)
    IN  IF func.kind = "None" THEN Step("idle", "abort400", None, None)
        ELSE IF func.kind # "command" THEN Step("idle", "AttributeError", None, None)
        ELSE IF func_name = "set_room" THEN set_room(key, rms, command)
        ELSE turn_on(command)

Idle == [pc |-> "idle", dev |-> None, command |-> None, self |-> None,
         room |-> None, result |-> "none", invoked |-> None]

\* A unit of work loads device d and dispatches a command to it.
Dispatch(u, d, command) ==
  /\ uow[u].pc = "idle"
  /\ \E r \in {handle_command(devs[d], d, InNamespace(rooms, KeyNamespace(d)),
                                command)} :
       /\ r.room # None => Len(r.room[1].entity.devices) <= MaxRoomDevices
       /\ uow' = [uow EXCEPT ![u] =
                 [pc |-> r.pc, dev |-> Some(d), command |-> Some(command),
                  self |-> IF r.pc = "idle" THEN None ELSE Some(devs[d]),
                  room |-> r.room, result |-> r.result, invoked |-> r.invoked]]
  /\ UNCHANGED <<rooms, devs, zvars, pvars, avars, cvars>>

\* set_room, model.py 75-77: room.put(), then self.room = room.key.
RoomPut(u) ==
  /\ uow[u].pc = "room.put"
  /\ rooms' = [rooms EXCEPT ![uow[u].room[1].id] = uow[u].room[1].entity]
  /\ uow' = [uow EXCEPT ![u].pc = "self.put",
                        ![u].self = Some([@[1] EXCEPT !.room = Some(uow[u].room[1].id)])]
  /\ UNCHANGED <<devs, zvars, pvars, avars, cvars>>

\* set_room, model.py 78: self.put(); the command is done.
SelfPut(u) ==
  /\ uow[u].pc = "self.put"
  /\ devs' = [devs EXCEPT ![uow[u].dev[1]] = uow[u].self[1]]
  /\ uow' = [uow EXCEPT ![u].pc = "idle", ![u].result = "ok",
                        ![u].self = None, ![u].room = None]
  /\ UNCHANGED <<rooms, zvars, pvars, avars, cvars>>

DInit ==
  /\ rooms = [r \in Rooms \cup OtherRooms |->
                Room(KeyNamespace(r), Some(r))]
  /\ devs = [d \in Devices |->
               IF d = "d1" THEN Device("Device", "alice", None)
               ELSE Device("Switch", "alice", Some("lamp"))]
  /\ uow = [u \in Units |-> Idle]

\* One unit of work at a time: each command runs to its end.
DispatchNext ==
  \/ \E d \in Devices, command \in CommandEnvelopes : Dispatch("u1", d, command)
  \/ RoomPut("u1")
  \/ SelfPut("u1")

\* Overlapping units of work: requests are served concurrently, and each
\* put is a datastore write of its own.
ConcurrentNext ==
  \/ \E u \in Units, d \in Devices :
       \E room_id \in Rooms \cup {"r9"} :
         Dispatch(u, d, Command(Some("set_room"), Some(room_id)))
  \/ \E u \in Units : RoomPut(u)
  \/ \E u \in Units : SelfPut(u)

(***************************************************************************)
(* user.py: the push fanout (send_event, push_events).                     *)
(***************************************************************************)
\* The longest batch one unit of work accumulates in the model.
MaxEvents == 3
\* The number of units of work the model runs.
MaxRequests == 2

\* max_size of the limit_json_batch call (user.py 106).
max_size == 8000

Buildings == {"b1", "b2"}
\* The serialized sizes of the events the model emits.
EventSizes == {3000, 5000}

\* building.get_id() (appengine/building.py): the building of the current
\* request, which user.py 90-94 says is taken from the namespace.
building_get_id(ns) == ns

\* 'private-%s' % building_id
ChannelId(building_id) == <<"private", building_id>>

RECURSIVE SumSizes(_)
SumSizes(events) ==
  IF events = << >> THEN 0 ELSE Head(events).size + SumSizes(Tail(events))

\* The length of the JSON list of the events: the brackets, the events and
\* the separators between them.
SerializedSize(events) ==
  IF events = << >> THEN 2 ELSE 2 + SumSizes(events) + (Len(events) - 1)

\* utils.limit_json_batch(events, max_size) (common/utils.py): the events
\* in order, cut into batches none of which serializes to more than
\* max_size; an event joins the current batch while the batch still fits.
RECURSIVE LimitFrom(_, _, _)
LimitFrom(events, batch, limit) ==
  IF events = << >>
  THEN IF batch = << >> THEN << >> ELSE << batch >>
  ELSE IF batch = << >> \/ SerializedSize(Append(batch, Head(events))) <= limit
       THEN LimitFrom(Tail(events), Append(batch, Head(events)), limit)
       ELSE << batch >> \o LimitFrom(events, << >>, limit)

limit_json_batch(events, limit) == LimitFrom(events, << >>, limit)

\* user.py 100: events = [event for _, event in events]
Payloads(events) == [i \in 1..Len(events) |-> events[i][2]]

\* The buildings the events of a batch were emitted for.
BuildingsOf(events) == { events[i][1] : i \in 1..Len(events) }

Flushed(result, deliveries) == [result |-> result, pushed |-> deliveries]

\* The pusher calls of user.py 106-109 for the batches, in order; the call
\* number failAt raises (0: no call does) and ends the loop.
Deliver(channel_id, batches, failAt) ==
  IF failAt \in 1..Len(batches)
  THEN Flushed("PushError",
               [i \in 1..(failAt - 1) |-> [channel |-> channel_id, batch |-> batches[i]]])
  ELSE Flushed("ok",
               [i \in 1..Len(batches) |-> [channel |-> channel_id, batch |-> batches[i]]])

\* Mutant of push_events: the loop that asserts the buildings is missing.
push_events_Unchecked(events, ns, failAt) ==
  IF events = None THEN Flushed("ok", << >>)
  ELSE Deliver(ChannelId(building_get_id(ns)),
               limit_json_batch(Payloads(events[1]), max_size), failAt)

\* Mutant of push_events: the loop returns after its first pusher call.
push_events_FirstBatchOnly(events, ns, failAt) ==
  IF events = None THEN Flushed("ok", << >>)
  ELSE IF BuildingsOf(events[1]) \ {building_get_id(ns)} # {}
       THEN Flushed("AssertionError", << >>)
       ELSE Deliver(ChannelId(building_get_id(ns)),
                    SubSeq(limit_json_batch(Payloads(events[1]), max_size), 1, 1),
                    failAt)

\* push_events (user.py 82-109) after it read and cleared the batch: the
\* deliveries it makes and how it ends.
push_events(events, ns, failAt) ==
  IF events = None THEN Flushed("ok", << >>)
  ELSE
    LET building_id == building_get_id(ns)
        channel_id == ChannelId(building_id)
    IN  IF BuildingsOf(events[1]) \ {building_id} # {}
        THEN Flushed("AssertionError", << >>)
        ELSE Deliver(channel_id, limit_json_batch(Payloads(events[1]), max_size), failAt)

NoFlush == [op |-> "none", result |-> "none", events |-> None, building |-> "none",
            unit |-> 0]

\* Mutant of ReadAndClear: the setattr of user.py 85 is missing.
ReadAndClear_Keeps(g) == [events |-> g, user_events |-> g]

\* user.py 84-85: push_events reads flask.g.user_events and sets it to
\* None before it does anything else.
ReadAndClear(g) == [events |-> g, user_events |-> None]

\* main.py 73 (before_request) and every later namespace switch.
SetNamespace(b) ==
  /\ namespace # b
  /\ namespace' = b
  /\ UNCHANGED <<user_events, pushed, plast, unit, zvars, dvars, avars, cvars>>

\* send_event (user.py 72-79).  The first event of a unit of work creates
\* the batch; the record of the previous flush is dropped with it.
SendEvent(size) ==
  LET batch == IF user_events = None THEN << >> ELSE user_events[1]
  IN  /\ Len(batch) < MaxEvents
      /\ unit <= MaxRequests
      /\ user_events' =
           Some(Append(batch, <<building_get_id(namespace),
                                [unit |-> unit, id |-> Len(batch) + 1,
                                 size |-> size]>>))
      /\ pushed' = IF user_events = None THEN << >> ELSE pushed
      /\ plast' = IF user_events = None THEN NoFlush ELSE plast
      /\ UNCHANGED <<namespace, unit, zvars, dvars, avars, cvars>>

\* push_events (user.py 82-109), run by after_request (main.py 76-80) at
\* the end of the unit of work; the next unit of work starts after it.
PushEvents(failAt) ==
  /\ unit <= MaxRequests
  /\ \E g \in {ReadAndClear(user_events)} :
       \E r \in {push_events(g.events, namespace, failAt)} :
         /\ user_events' = g.user_events
         /\ pushed' = r.pushed
         /\ plast' = [op |-> "push_events", result |-> r.result,
                      events |-> g.events,
                      building |-> building_get_id(namespace), unit |-> unit]
  /\ unit' = unit + 1
  /\ UNCHANGED <<namespace, zvars, dvars, avars, cvars>>

PInit ==
  /\ namespace = "b1"
  /\ user_events = None
  /\ pushed = << >>
  /\ plast = NoFlush
  /\ unit = 1

PushNext ==
  \/ \E b \in Buildings : SetNamespace(b)
  \/ \E size \in EventSizes : SendEvent(size)
  \/ \E failAt \in 0..MaxEvents : PushEvents(failAt)

(***************************************************************************)
(* account.py: the OAuth account link.                                     *)
(***************************************************************************)
\* The ids uuid4 may return, and a state token no start_flow issued.
Tokens == {"k1", "k2"}
States == Tokens \cup {"forged"}
\* ACCOUNT_TYPES: the registry the register decorator fills at import time.
ACCOUNT_TYPES == {"nest"}
Codes == {"c1"}
\* time.time() at the token exchange.
Times == {100, 200}

\* cls(id=key, owner=...): an Account with no code and no tokens.
Account(class, owner) ==
  [class |-> class, owner |-> owner, auth_code |-> None,
   access_token |-> None, expires |-> None, refresh_token |-> None]

\* What the token endpoint answers: an HTTP error, or a JSON object in which
\* each of access_token, expires_in and refresh_token may be missing.
Response(access_token, expires_in, refresh_token) ==
  [status |-> "ok", access_token |-> access_token, expires_in |-> expires_in,
   refresh_token |-> refresh_token]
HTTPError == [status |-> "HTTPError", access_token |-> None, expires_in |-> None,
              refresh_token |-> None]
Responses ==
  { HTTPError,
    Response(None, Some(10), Some("f1")),
    Response(Some("a1"), None, Some("f1")) }
  \cup { Response(Some(a), Some(10), f) :
           a \in {"a1", "a2"}, f \in {None, Some("f1"), Some("f2")} }

\* Account.refresh_access_token (account.py 54-77): the request it sends,
\* how it ends and the Account object after it.
refresh_access_token(account, response, time) ==
  LET request == [auth_code |-> account.auth_code,
                  grant_type |-> "authorization_code", data |-> ""]
  IN  IF response.status = "HTTPError"
      THEN [outcome |-> "HTTPError", account |-> account, request |-> request]
      ELSE IF response.access_token = None
      THEN [outcome |-> "KeyError", account |-> account, request |-> request]
      ELSE IF response.expires_in = None
      THEN [outcome |-> "KeyError",
            account |-> [account EXCEPT !.access_token = response.access_token],
            request |-> request]
      ELSE [outcome |-> "ok",
            account |-> [account EXCEPT
                           !.access_token = response.access_token,
                           !.expires = Some(time + response.expires_in[1]),
                           !.refresh_token = response.refresh_token],
            request |-> request]

\* Mutant of AccountGetById: get_or_insert in place of get_by_id.
AccountGetById_OrInsert(accts, state) ==
  IF accts[state] # None THEN accts[state] ELSE Some(Account("Account", "alice"))

\* Account.get_by_id(state): the stored Account, or None.
AccountGetById(accts, state) == accts[state]

OAuthStep(result, accts, exchanged, request) ==
  [result |-> result, accounts |-> accts, exchanged |-> exchanged,
   request |-> request]

\* oauth_start_flow (account.py 89-111) for the type of the query and the
\* key uuid4 returns: without a registered class line 103 calls flask.about,
\* which flask does not have.
oauth_start_flow(accts, account_type, key, owner) ==
  IF account_type = None THEN OAuthStep("abort400", accts, FALSE, None)
  ELSE IF account_type[1] \notin ACCOUNT_TYPES
  THEN OAuthStep("AttributeError", accts, FALSE, None)
  ELSE OAuthStep("redirect",
                 [accts EXCEPT ![key] = Some(Account(account_type[1], owner))],
                 FALSE, None)

\* rest.command (appengine/rest.py) around refresh_access_token: the REST
\* layer loads the Account stored under the id, calls the command on it and
\* puts the object once the command has returned; a command that raises
\* ends the request before the put.
rest_command(accts, key, response, time) ==
  LET r == refresh_access_token(accts[key][1], response, time)
  IN  IF r.outcome # "ok"
      THEN OAuthStep(r.outcome, accts, TRUE, Some(r.request))
      ELSE OAuthStep("ok", [accts EXCEPT ![key] = Some(r.account)],
                     TRUE, Some(r.request))

\* Mutant of oauth_redirect_callback: account.put() in a finally clause, so
\* that the Account is stored however the exchange ended.
oauth_redirect_callback_PutsAlways(accts, auth_code, state, response, time) ==
  IF auth_code = None \/ state = None
  THEN OAuthStep("abort400", accts, FALSE, None)
  ELSE
    LET account == AccountGetById(accts, state[1])
    IN  IF account = None THEN OAuthStep("abort400", accts, FALSE, None)
        ELSE
          LET r == refresh_access_token(
                     [account[1] EXCEPT !.auth_code = auth_code], response, time)
          IN  OAuthStep(IF r.outcome = "ok" THEN "OK" ELSE r.outcome,
                        [accts EXCEPT ![state[1]] = Some(r.account)],
                        TRUE, Some(r.request))

\* oauth_redirect_callback (account.py 114-135): the stored accounts after
\* it, its result, and the token request it made, if any.
oauth_redirect_callback(accts, auth_code, state, response, time) ==
  IF auth_code = None \/ state = None
  THEN OAuthStep("abort400", accts, FALSE, None)
  ELSE
    LET account == AccountGetById(accts, state[1])
    IN  IF account = None THEN OAuthStep("abort400", accts, FALSE, None)
        ELSE
          LET r == refresh_access_token(
                     [account[1] EXCEPT !.auth_code = auth_code], response, time)
          IN  IF r.outcome # "ok"
              THEN OAuthStep(r.outcome, accts, TRUE, Some(r.request))
              ELSE OAuthStep("OK", [accts EXCEPT ![state[1]] = Some(r.account)],
                             TRUE, Some(r.request))

\* Step 1 of the flow, by the logged-in user.
StartFlow(account_type) ==
  \E key \in { k \in Tokens : accounts[k] = None } :
    \E r \in {oauth_start_flow(accounts, account_type, key, "alice")} :
      /\ accounts' = r.accounts
      /\ alast' = [op |-> "start_flow", result |-> r.result,
                   state |-> IF r.result = "redirect" THEN Some(key) ELSE None,
                   found |-> FALSE, exchanged |-> r.exchanged,
                   request |-> r.request]
      /\ UNCHANGED <<zvars, dvars, pvars, cvars>>

\* Step 2 of the flow: the redirect back, with whatever code and state the
\* request carries and whatever the token endpoint answers.
Callback(auth_code, state, response, time) ==
  \E r \in {oauth_redirect_callback(accounts, auth_code, state, response, time)} :
    /\ accounts' = r.accounts
    /\ alast' = [op |-> IF auth_code = None \/ state = None
                        THEN "callback_invalid" ELSE "callback",
                 result |-> r.result, state |-> state,
                 found |-> (state # None /\ accounts[state[1]] # None),
                 exchanged |-> r.exchanged, request |-> r.request]
    /\ UNCHANGED <<zvars, dvars, pvars, cvars>>

\* The refresh_access_token command of a stored Account, sent through the
\* REST interface.  The command does not look at what the Account holds:
\* it runs for an Account no callback has reached as it does for a linked
\* one, with whatever the token endpoint answers.
Refresh(key, response, time) ==
  /\ accounts[key] # None
  /\ \E r \in {rest_command(accounts, key, response, time)} :
       /\ accounts' = r.accounts
       /\ alast' = [op |-> "refresh", result |-> r.result, state |-> Some(key),
                    found |-> TRUE, exchanged |-> r.exchanged,
                    request |-> r.request]
  /\ UNCHANGED <<zvars, dvars, pvars, cvars>>

AInit ==
  /\ accounts = [k \in States |-> None]
  /\ alast = [op |-> "none", result |-> "none", state |-> None, found |-> FALSE,
              exchanged |-> FALSE, request |-> None]

AccountNext ==
  \/ \E account_type \in {None, Some("nest"), Some("hue")} : StartFlow(account_type)
  \/ \E auth_code \in {None} \cup { Some(c) : c \in Codes },
        state \in {None} \cup { Some(k) : k \in States },
        response \in Responses, time \in Times :
       Callback(auth_code, state, response, time)
  \/ \E key \in States, response \in Responses, time \in Times :
       Refresh(key, response, time)

(***************************************************************************)
(* user.py: Person and the authorization of a socket for a channel.        *)
(***************************************************************************)
\* The user ids of users.get_current_user(), the building ids a Person may
\* list, the socket ids and the channel names of the request form.
UserIds == {"101", "102"}
BuildingIds == UserIds \cup {"103"}
SocketIds == {"s1"}
ChannelNames == { ChannelId(b) : b \in BuildingIds } \cup {<<"presence", "101">>}

\* Person (user.py 17-20); buildings is read for membership only.
Person(buildings) == [buildings |-> buildings]

\* Methods of a Python str; match is a function of the re module and a
\* method of a compiled pattern, not of str.
StrMethods == {"format", "join", "split", "startswith"}

\* get_person (user.py 35-49) in namespace ns: the assert of line 40, then
\* get_or_insert with the user's own id as the only building.
get_person(prsns, user_id, ns) ==
  IF ns # ""
  THEN [outcome |-> "AssertionError", persons |-> prsns, person |-> None]
  ELSE IF prsns[user_id] = None
  THEN [outcome |-> "ok",
        persons |-> [prsns EXCEPT ![user_id] = Some(Person({user_id}))],
        person |-> Some(Person({user_id}))]
  ELSE [outcome |-> "ok", persons |-> prsns, person |-> prsns[user_id]]

ChannelStep(result, prsns, auth) ==
  [result |-> result, persons |-> prsns, auth |-> auth]

\* pusher_client_auth_callback (user.py 117-138).  Line 125 calls match on
\* a str literal; lines 126-138 are what follows once match is found.
pusher_client_auth_callback(prsns, user_id, ns, socket_id, channel_name) ==
  LET p == get_person(prsns, user_id, ns)
  IN  IF p.outcome # "ok" THEN ChannelStep(p.outcome, p.persons, None)
      ELSE IF "match" \notin StrMethods
      THEN ChannelStep("AttributeError", p.persons, None)
      ELSE IF channel_name[1] # "private"
      THEN ChannelStep("AttributeError", p.persons, None)
      ELSE IF channel_name[2] \notin p.person[1].buildings
      THEN ChannelStep("abort401", p.persons, None)
      ELSE ChannelStep("granted", p.persons,
                       Some([channel |-> channel_name, socket |-> socket_id]))

NoAuth == [op |-> "none", user |-> "none", ns |-> "", channel |-> <<"none", "none">>,
           buildings |-> {}, result |-> "none", auth |-> None]

\* POST /api/user/channel_auth by a logged-in user.  before_request
\* (main.py 73) has set the namespace to the user id; a request that also
\* authenticates as a proxy (main.py 51-60) keeps the empty namespace.
ChannelAuth(user_id, ns, socket_id, channel_name) ==
  /\ \E r \in {pusher_client_auth_callback(persons, user_id, ns, socket_id,
                                          channel_name)} :
       /\ persons' = r.persons
       /\ clast' = [op |-> "channel_auth", user |-> user_id, ns |-> ns,
                    channel |-> channel_name,
                    buildings |-> IF persons[user_id] = None THEN {user_id}
                                  ELSE persons[user_id][1].buildings,
                    result |-> r.result, auth |-> r.auth]
  /\ UNCHANGED <<zvars, dvars, pvars, avars>>

\* The Persons stored when the requests arrive: none for a user, or one
\* that lists some buildings.
CInit ==
  /\ persons \in [UserIds -> {None} \cup { Some(Person(B)) :
                                            B \in {{"101"}, {"102"}, {"101", "102"}} }]
  /\ clast = NoAuth

CIdle == CInit /\ persons = [u \in UserIds |-> None]

ChannelNext ==
  \E user_id \in UserIds, socket_id \in SocketIds, channel_name \in ChannelNames :
    \E ns \in {user_id, ""} :
      ChannelAuth(user_id, ns, socket_id, channel_name)

Init == ZIdle /\ DInit /\ PInit /\ AInit /\ CIdle
InitZWave == ZInit /\ DInit /\ PInit /\ AInit /\ CIdle
InitChannel == ZIdle /\ DInit /\ PInit /\ AInit /\ CInit

SpecZWave == InitZWave /\ [][ZNext]_vars
SpecDriver == InitZWave /\ [][DriverNext]_vars
SpecDispatch == Init /\ [][DispatchNext]_vars
SpecConcurrent == Init /\ [][ConcurrentNext]_vars
SpecPush == Init /\ [][PushNext]_vars
SpecAccount == Init /\ [][AccountNext]_vars
SpecChannel == InitChannel /\ [][ChannelNext]_vars

(***************************************************************************)
(* Properties of the Z-Wave normalizer.                                    *)
(***************************************************************************)
Values == zdev.zwave_command_class_values

\* The number of entries of a list for (command_class, index).
Count(values, command_class, index) ==
  Cardinality(Positions(values, command_class, index))

\* A complete ValueChanged notification for a pair, carrying a value.
ValueChanged(pair, v, ids) ==
  Event(Some("ValueChanged"), ids[1], ids[2],
        Some(FullValueId(pair[1], pair[2], Some(v))), NoInfo)

\* C1: after any sequence of handle_event calls the device's
\* zwave_command_class_values holds at most one entry for each
\* (command_class, index) pair.
C1_OneValuePerPair ==
  \A i, j \in 1..Len(Values) :
    (Values[i].command_class = Values[j].command_class
       /\ Values[i].index = Values[j].index) => i = j

\* A notification was upserted into an entry the list already held, beside
\* an entry for another pair.
C1_Witness ==
  /\ zlast.op = "handle_event" /\ zlast.outcome = "ok"
  /\ zlast.upsert.kind \in {"same", "overwrote"}
  /\ Len(Values) >= 2

\* C2: from every device state, two ValueChanged normalizations for the same
\* pair applied one after the other leave exactly one entry for the pair,
\* holding the value of the second; applying the same notification twice
\* leaves the device (and the lights) as applying it once does.
C2_LastWriteWins ==
  \A pair \in Pairs, v1, v2 \in BOOLEAN,
     ids \in {<<None, None>>, <<Some(7), Some(3)>>} :
    LET e1 == ValueChanged(pair, v1, ids)
        e2 == ValueChanged(pair, v2, ids)
        r1 == handle_event(zdev, lights, e1)
        r2 == handle_event(r1.dev, r1.lights, e2)
        values == r2.dev.zwave_command_class_values
    IN  /\ r1.outcome = "ok" /\ r2.outcome = "ok"
        /\ Count(values, pair[1], pair[2]) = 1
        /\ \A i \in Positions(values, pair[1], pair[2]) : values[i].value = Some(v2)
        /\ (v1 = v2 => r2.dev = r1.dev /\ r2.lights = r1.lights)

\* A ValueChanged notification replaced the value an earlier notification
\* had stored for its pair.
C2_Witness ==
  /\ zlast.op = "handle_event" /\ zlast.type = "ValueChanged"
  /\ zlast.outcome = "ok" /\ zlast.upsert.kind = "overwrote"
  /\ Count(Values, Values[zlast.upsert.at].command_class,
           Values[zlast.upsert.at].index) = 1

\* The notification of C9: the valueId carries commandClass, index, id,
\* readOnly and value and nothing else.
C9Event ==
  Event(Some("ValueChanged"), None, None,
        Some(ValueId(Some(SENSOR_BINARY), Some(0), Some(TRUE), Some(1),
                     Some(TRUE), None, None, None)),
        NoInfo)

\* What C9 expects of normalizing event against the device in room "r1".
C9Expected(event) ==
  LET r == handle_event(zdev, lights, event)
      values == r.dev.zwave_command_class_values
  IN  /\ r.outcome = "ok"
      /\ r.lights["r1"] = Some(TRUE)
      /\ Count(values, SENSOR_BINARY, 0) = 1
      /\ \A i \in Positions(values, SENSOR_BINARY, 0) : values[i].value = Some(TRUE)

\* C9 as stated: normalizing the notification whose valueId has exactly
\* commandClass, index, id, readOnly and value against a device in the
\* existing room r1 completes, turns the lights of r1 on and leaves one
\* entry (COMMAND_CLASS_SENSOR_BINARY, 0) with value true.
C9_AsStated == zdev.room = Some("r1") => C9Expected(C9Event)

\* C9 as amended: the same holds of the notification whose valueId also
\* carries the protocol keys homeId, nodeId and instance, which handle_event
\* deletes before it stores the value.
C9_WithProtocolKeys ==
  zdev.room = Some("r1") =>
    \A ids \in MeshIds : C9Expected(ValueChanged(<<SENSOR_BINARY, 0>>, TRUE, ids))

\* A ValueChanged for (COMMAND_CLASS_SENSOR_BINARY, 0) with value true was
\* normalized against the device in room r1 and the lights of r1 are on.
C9_Witness ==
  /\ zlast.op = "handle_event" /\ zlast.type = "ValueChanged"
  /\ zlast.outcome = "ok" /\ zlast.upsert.at > 0
  /\ zdev.room = Some("r1")
  /\ Values[zlast.upsert.at].command_class = SENSOR_BINARY
  /\ Values[zlast.upsert.at].index = 0
  /\ Values[zlast.upsert.at].value = Some(TRUE)
  /\ lights["r1"] = Some(TRUE)

\* C10: handle_event with a notificationType other than ValueAdded,
\* ValueChanged and NodeInfoUpdate never raises, leaves the values, the
\* descriptive fields and everything else but the mesh identifiers as they
\* were, and changes a mesh identifier only when the notification carries it.
C10_OtherTypesFrame ==
  \A event \in OtherEvents :
    event.notificationType # None =>
      LET r == handle_event(zdev, lights, event)
      IN  /\ r.outcome = "ok"
          /\ r.lights = lights
          /\ [r.dev EXCEPT !.zwave_home_id = None, !.zwave_node_id = None]
               = [zdev EXCEPT !.zwave_home_id = None, !.zwave_node_id = None]
          /\ (event.homeId = None => r.dev.zwave_home_id = zdev.zwave_home_id)
          /\ (event.nodeId = None => r.dev.zwave_node_id = zdev.zwave_node_id)
          /\ (event.homeId # None => r.dev.zwave_home_id = event.homeId)
          /\ (event.nodeId # None => r.dev.zwave_node_id = event.nodeId)

\* A notification of another type reached a device that holds values, a
\* home id and descriptive fields, and ended without an error.
C10_Witness ==
  /\ zlast.op = "handle_event" /\ zlast.type = "NodeRemoved"
  /\ zlast.outcome = "ok"
  /\ Values # << >>
  /\ zdev.zwave_home_id # None /\ zdev.zwave_node_id = None
  /\ zdev.zwave_node_type # None

\* C4: reading the driver of a device never fails: with no driver registered
\* for the device's (manufacturer id, product type, product id) it returns
\* the fallback Driver, whose capabilities are empty, and with one
\* registered it returns the registered driver.
C4_DriverNeverFails ==
  zlast.op = "driver" =>
    /\ zlast.outcome = "ok"
    /\ zlast.driver = (IF LookupDriver(DriverKey(zdev)) = None
                       THEN Some("Driver")
                       ELSE LookupDriver(DriverKey(zdev)))
    /\ (LookupDriver(DriverKey(zdev)) = None =>
          get_capabilities(zlast.driver[1]) = {})

(***************************************************************************)
(* Properties of command dispatch and set_room.                            *)
(***************************************************************************)
\* The unit of work has run a command to its end.
Ran(u) == uow[u].pc = "idle" /\ uow[u].command # None

\* The device class and the command name of the unit's command.
ClassOf(u) == devs[uow[u].dev[1]].class
NameOf(u) == uow[u].command[1].command

\* C3: handle_command with a name that is no method marked as a command
\* (absent, a method that is no command, or a non-method attribute) fails
\* with abort(400), invokes no handler and raises nothing else.
C3_UnknownCommandIs400 ==
  \A u \in Units :
    (Ran(u) /\ NameOf(u) # None /\ NameOf(u)[1] \notin Commands(ClassOf(u)))
      => (uow[u].result = "abort400" /\ uow[u].invoked = None)

C19_DevicesIsSet ==
  \A r \in DOMAIN rooms :
    \A i, j \in 1..Len(rooms[r].devices) :
      rooms[r].devices[i] = rooms[r].devices[j] => i = j

\* C20: the devices of the Room a stored Device refers to hold the key of
\* that Device, in every state of overlapping set_room commands.
C20_RoomListsItsDevices ==
  \A d \in Devices :
    devs[d].room # None =>
      \E i \in 1..Len(rooms[devs[d].room[1]].devices) :
        rooms[devs[d].room[1]].devices[i] = d

(***************************************************************************)
(* Properties of the push fanout.                                          *)
(***************************************************************************)
RECURSIVE Flatten(_)
Flatten(batches) ==
  IF batches = << >> THEN << >> ELSE Head(batches) \o Flatten(Tail(batches))

PushedBatches == [i \in 1..Len(pushed) |-> pushed[i].batch]

\* C6: every event a flush hands to the delivery channel was emitted for
\* the building the flush resolves its channel for; a batch holding an
\* event of another building makes the flush raise before any delivery.
C6_OneBuildingPerFlush ==
  (plast.op = "push_events" /\ plast.events # None) =>
    /\ (BuildingsOf(plast.events[1]) \ {plast.building} # {}
          => plast.result = "AssertionError" /\ pushed = << >>)
    /\ (pushed # << >> =>
          /\ BuildingsOf(plast.events[1]) = {plast.building}
          /\ \A i \in 1..Len(pushed) : pushed[i].channel = ChannelId(plast.building))

\* A flush found events of two buildings in its batch, one of them its own.
C6_Witness ==
  /\ plast.op = "push_events" /\ plast.events # None
  /\ plast.result = "AssertionError"
  /\ BuildingsOf(plast.events[1]) = Buildings

Unissued == { k \in States : accounts[k] = None }

TokensOf(accts) ==
  [k \in States |->
     IF accts[k] = None THEN None
     ELSE Some(<<accts[k][1].access_token, accts[k][1].expires,
                 accts[k][1].refresh_token>>)]

\* The answers of the token endpoint that make the exchange fail.
FailedResponses ==
  { response \in Responses :
      \/ response.status = "HTTPError"
      \/ response.access_token = None
      \/ response.expires_in = None }

Linked(accts, k) == accts[k] # None /\ accts[k][1].access_token # None

\* C11: a callback or a refresh whose token exchange fails (HTTP error, or
\* an answer without access_token or expires_in) ends with that error
\* after its one request, and the stored access_token, expires and
\* refresh_token of every Account are what they were before the step.
C11_FailedExchangeCommitsNothing ==
  [][ \A c \in Codes, k \in States, response \in FailedResponses, time \in Times :
        (/\ accounts[k] # None /\ alast'.state = Some(k)
         /\ \/ Callback(Some(c), Some(k), response, time)
            \/ Refresh(k, response, time))
          => /\ alast'.exchanged
             /\ alast'.result \in {"HTTPError", "KeyError"}
             /\ TokensOf(accounts') = TokensOf(accounts) ]_vars

\* The callback of a linked Account got an answer that misses a key: the
\* step raised KeyError and the Account still holds its tokens.
C11_Witness ==
  /\ alast.op = "callback" /\ alast.exchanged /\ alast.result = "KeyError"
  /\ Linked(accounts, alast.state[1])
  /\ accounts[alast.state[1]][1].expires # None

\* C12: start_flow with a type tag that is not registered is rejected as a
\* client error (abort(400)) and stores no Account; with a registered tag
\* it stores one new Account, owned by the caller, under the token it
\* passes as the state of the redirect.
C12_StartFlow ==
  \A key \in Unissued \cap Tokens :
    /\ LET r == oauth_start_flow(accounts, Some("hue"), key, "alice")
       IN  r.result = "abort400" /\ r.accounts = accounts
    /\ LET r == oauth_start_flow(accounts, Some("nest"), key, "alice")
       IN  /\ r.result = "redirect"
           /\ r.accounts = [accounts EXCEPT ![key] = Some(Account("nest", "alice"))]

\* C16: a successful exchange whose answer carries no refresh_token keeps
\* the refresh_token the Account had, and sets access_token and
\* expires = now + expires_in.
C16_KeepsRefreshToken ==
  \A k \in States, time \in Times,
     response \in { x \in Responses \ FailedResponses : x.refresh_token = None } :
    accounts[k] # None =>
      LET r == refresh_access_token(accounts[k][1], response, time)
      IN  /\ r.outcome = "ok"
          /\ r.account.access_token = response.access_token
          /\ r.account.expires = Some(time + response.expires_in[1])
          /\ r.account.refresh_token = accounts[k][1].refresh_token

\* C17: the token request of a refresh carries the stored refresh_token
\* and a refresh grant, not the auth code and the authorization_code grant
\* of the callback.
C17_RefreshUsesRefreshToken ==
  alast.op = "refresh" =>
    /\ alast.request[1].grant_type = "refresh_token"
    /\ "refresh_token" \in DOMAIN alast.request[1]
    /\ "auth_code" \notin DOMAIN alast.request[1]

IsPrefix(a, b) == Len(a) <= Len(b) /\ a = SubSeq(b, 1, Len(a))

\* C15: after push_events has run, however it ended, the buffer is empty;
\* what it delivered are events of the batch it read, each at most once,
\* all emitted in its own unit of work; the buffer only ever holds events
\* of the unit of work that is running, and a flush that found no batch
\* makes no delivery.
C15_BufferClearedOncePerUnit ==
  /\ plast.op = "push_events" =>
       /\ user_events = None
       /\ plast.events = None => pushed = << >>
       /\ plast.events # None =>
            /\ IsPrefix(Flatten(PushedBatches), Payloads(plast.events[1]))
            /\ \A i \in 1..Len(plast.events[1]) :
                 /\ plast.events[1][i][2].unit = plast.unit
                 /\ plast.events[1][i][2].id = i
  /\ user_events # None =>
       \A i \in 1..Len(user_events[1]) : user_events[1][i][2].unit = unit

\* The flush of the second unit of work failed in its second delivery
\* call: one batch of its events was delivered and the buffer is empty.
C15_Witness ==
  /\ plast.op = "push_events" /\ plast.unit = 2 /\ plast.result = "PushError"
  /\ plast.events # None /\ Len(plast.events[1]) >= 2
  /\ Len(pushed) = 1
  /\ user_events = None

(***************************************************************************)
(* Properties of the channel authorization.                                *)
(***************************************************************************)
\* C13: a request for the channel private-<buildingId> is granted when the
\* building is among the buildings of the requester's Person and rejected
\* with abort(401), and not granted, when it is not.
C13_ChannelAuth ==
  (clast.op = "channel_auth" /\ clast.channel[1] = "private") =>
    IF clast.channel[2] \in clast.buildings
    THEN clast.result = "granted" /\ clast.auth # None
    ELSE clast.result = "abort401" /\ clast.auth = None

====
